---- MODULE Spec2Model ----
(***************************************************************************)
(* The document ingestion pipeline of app/file_service.py: FileService's   *)
(* upload_file (validate_file, save_file, get_file_metadata, the record    *)
(* commit, process_file), get_file and delete_file, over a blob store      *)
(* (the upload directory) and a record store (the database session).       *)
(*                                                                         *)
(* Every call of upload_file is one process u; its blob path and its       *)
(* record id are the fresh token u (uuid4).  The steps of a call are the   *)
(* statements between which another call may run.  A collaborator that     *)
(* may raise (open, read, write, magic, hashing, commit, refresh, remove,  *)
(* the audio processor) raises or returns by nondeterministic choice.      *)
(* db is what the session has committed; file_record is the object in      *)
(* memory, which a commit that raises leaves as it is.                     *)
(***************************************************************************)
EXTENDS Integers, Sequences, FiniteSets, TLC

\* Number of upload_file calls of one run (each call has a fresh token).
MaxUploads == 1

Uploads == 1..MaxUploads

VARIABLES
  disk,         \* blob store: path -> bytes, for the paths that exist
  db,           \* record store: id -> the committed (durable) File row
  pc,           \* each upload call's position
  file,         \* each call's UploadFile argument
  file_record,  \* each call's in-memory File object
  result,       \* each call's outcome: "none" while running, "ok" (the call
                \* returned file_record), or the exception that left it
  last,         \* the delete_file call that returned in the last step, if one did
  recon,        \* the cleanup_orphaned_files call that returned in the last step
  sweep,        \* the cleanup_orphaned_files call in progress (when run in steps)
  job,          \* the document and MIME type extract_text is called with
  out,          \* what that call returned
  extracted_text  \* each call's local extracted_text of process_file

vars == <<disk, db, pc, file, file_record, result, last, recon, sweep, job, out, extracted_text>>

----------------------------------------------------------------------------
\* self.max_file_size
max_file_size == 50 * 1024 * 1024

\* self.allowed_extensions
allowed_extensions ==
  [document |-> {".pdf", ".docx", ".txt", ".csv", ".md"},
   audio    |-> {".mp3", ".wav", ".m4a"},
   image    |-> {".jpg", ".jpeg", ".png", ".gif"},
   other    |-> {".zip", ".json", ".xml"}]

FileTypes == <<"document", "audio", "image", "other">>

\* str.lower() on the suffixes that occur
Lower(s) == CASE s = ".MP3" -> ".mp3"
              [] s = ".TXT" -> ".txt"
              [] OTHER -> s

\* A filename is its stem and its suffix (Path(name).suffix); given = FALSE is
\* a filename of None.
NoFilename == [given |-> FALSE, stem |-> "", suffix |-> ""]
Name(stem, suffix) == [given |-> TRUE, stem |-> stem, suffix |-> suffix]

\* secure_filename(name): path separators and dots of a traversal are
\* dropped, white space becomes "_"; the suffix is kept.
SecureStem(s) == CASE s = "../" -> ""
                   [] s = "my talk" -> "my_talk"
                   [] OTHER -> s
secure_filename(name) == Name(SecureStem(name.stem), name.suffix)

\* "not name": None and the empty string are false
Falsy(name) == ~name.given \/ (name.stem = "" /\ name.suffix = "")

\* The bytes of an upload, and their lengths
Bodies == {"", "hello world", "BIG"}
ByteLen(b) == CASE b = "" -> 0
            [] b = "hello" -> 5
            [] b = "hello world" -> 11
            [] b = "B" -> 1
            [] b = "BIG" -> max_file_size + 1

\* UploadFile.size is Optional[int]: None (NoSize), or the length of the body
NoSize == -1

\* What is left at the path when f.write fails partway: a strict prefix
PartialOf(b) == CASE b = "hello world" -> "hello"
                  [] b = "BIG" -> "B"
                  [] OTHER -> ""

Filenames ==
  {NoFilename, Name("", ""), Name("../", ""), Name("README", ""),
   Name("run", ".exe"), Name("notes", ".txt"), Name("my talk", ".MP3"),
   Name("pic", ".png")}

\* The UploadFile arguments: the size is the length of the body, or unknown
\* (which the size check lets through; enumerated for the body over the limit)
UploadFiles ==
  {[filename |-> n, size |-> ByteLen(b), body |-> b] :
     n \in Filenames, b \in Bodies}
  \cup {[filename |-> n, size |-> NoSize, body |-> "BIG"] : n \in Filenames}

----------------------------------------------------------------------------
\* get_file_type: the first category whose list holds the extension
get_file_type(name) ==
  LET ext == Lower(name.suffix)
      hits == {i \in 1..Len(FileTypes) : ext \in allowed_extensions[FileTypes[i]]}
  IN IF hits = {} THEN "other"
     ELSE FileTypes[CHOOSE i \in hits : \A j \in hits : i <= j]

all_allowed == UNION {allowed_extensions[t] : t \in DOMAIN allowed_extensions}

----------------------------------------------------------------------------
\* validate_file: the HTTPException it raises (error), or the validation result
Reject(e) ==
  [error |-> e, secure_filename |-> NoFilename, file_type |-> "", extension |-> ""]

validate_file(f) ==
  LET secure_name == secure_filename(f.filename)
      ext == Lower(secure_name.suffix)
  IN IF Falsy(f.filename) THEN Reject("NoFilename")
     ELSE IF f.size # NoSize /\ f.size # 0 /\ f.size > max_file_size
       THEN Reject("TooLarge")
     ELSE IF Falsy(secure_name) THEN Reject("InvalidFilename")
     ELSE IF ext \notin all_allowed THEN Reject("UnsupportedType")
     ELSE [error |-> "none", secure_filename |-> secure_name,
           file_type |-> get_file_type(secure_name), extension |-> ext]

\* The blob store as a mapping
Put(d, p, b) == [q \in DOMAIN d \cup {p} |-> IF q = p THEN b ELSE d[q]]
Remove(d, p) == [q \in DOMAIN d \ {p} |-> d[q]]

\* hashlib.sha256(bytes).hexdigest(), on the byte strings that occur
NoHash == "None"
SHA256(b) == CASE b = "" -> "e3b0c442"
               [] b = "hello" -> "2cf24dba"
               [] b = "hello world" -> "b94d27b9"
               [] b = "B" -> "df7e70e5"
               [] b = "BIG" -> "7a1c09fe"

\* _calculate_file_hash
calculate_file_hash(d, path) == SHA256(d[path])

\* magic.from_file(path, mime=True), on the byte strings that occur
Sniff(b) == CASE b = "" -> "inode/x-empty"
              [] b \in {"hello", "hello world"} -> "text/plain"
              [] OTHER -> "application/pdf"

\* get_file_metadata: fault names the call of the try block that raises
\* ("magic": magic.from_file, "hash": _calculate_file_hash); a path that does
\* not exist makes magic.from_file raise.
MetaFaults == {"none", "magic", "hash"}

get_file_metadata(d, path, fault) ==
  IF path \in DOMAIN d /\ fault = "none"
  THEN [mime_type |-> Sniff(d[path]), file_size |-> ByteLen(d[path]),
        hash |-> calculate_file_hash(d, path)]
  ELSE [mime_type |-> "application/octet-stream",
        file_size |-> IF path \in DOMAIN d THEN ByteLen(d[path]) ELSE 0,
        hash |-> NoHash,
        error |-> IF path \notin DOMAIN d THEN "No such file" ELSE fault]

\* A variant that replaces the mapping: b alone
MergeReplace(a, b) == b

\* {**a, **b}
Merge(a, b) ==
  [k \in DOMAIN a \cup DOMAIN b |-> IF k \in DOMAIN b THEN b[k] ELSE a[k]]

\* The File row; extracted_text of None is NoText
NoText == "<None>"
NoRecord ==
  [id |-> 0, filename |-> NoFilename, original_filename |-> NoFilename,
   file_path |-> 0, file_size |-> 0, mime_type |-> "", file_type |-> "",
   metadata |-> [hash |-> NoHash], processing_status |-> "",
   extracted_text |-> NoText]

\* File(...) of upload_file, with the generated id
NewFile(u, f, v, path, md) ==
  [id |-> u, filename |-> v.secure_filename, original_filename |-> f.filename,
   file_path |-> path, file_size |-> md.file_size, mime_type |-> md.mime_type,
   file_type |-> v.file_type, metadata |-> md,
   processing_status |-> "pending", extracted_text |-> NoText]

----------------------------------------------------------------------------
\* app/text_extraction.py: TextExtractor.  A text is a sequence of
\* characters.  A call returns a text, returns None (Absent), or is left by
\* an exception.

\* self.max_text_length, 50000 in the source, scaled to the texts below
max_text_length == 20

Text(t) == [kind |-> "text", text |-> t]
Absent == [kind |-> "none", text |-> << >>]
Raise(e) == [kind |-> "raise", text |-> <<e>>]

\* "except Exception as e: ... return None" around a body with result r
Catch(r) == IF r.kind = "raise" THEN Absent ELSE r

\* A variant of the slice that keeps all of s
SliceAll(s, n) == s

\* s[:n]
Slice(s, n) == SubSeq(s, 1, IF n < Len(s) THEN n ELSE Len(s))

\* content[:max] if len(content) > max else content
Cut(content) ==
  IF Len(content) > max_text_length THEN Slice(content, max_text_length)
  ELSE content

RECURSIVE Join(_, _)
\* sep.join(parts)
Join(parts, sep) ==
  IF parts = << >> THEN << >>
  ELSE IF Len(parts) = 1 THEN parts[1]
  ELSE parts[1] \o sep \o Join(Tail(parts), sep)

NL == <<"\n">>

\* The backquote character (one character, as every element of a text)
Backquote == "BACKQUOTE"
Whitespace == {" ", "\n", "\t"}

RECURSIVE LStrip(_, _)
\* s.lstrip(chars)
LStrip(s, chars) ==
  IF s # << >> /\ s[1] \in chars THEN LStrip(Tail(s), chars) ELSE s

RECURSIVE RStrip(_, _)
RStrip(s, chars) ==
  IF s # << >> /\ s[Len(s)] \in chars
  THEN RStrip(SubSeq(s, 1, Len(s) - 1), chars) ELSE s

\* s.strip()
Strip(s) == RStrip(LStrip(s, Whitespace), Whitespace)

Digits == <<"0", "1", "2", "3", "4", "5", "6", "7", "8", "9">>

RECURSIVE Str(_)
\* "{}".format(n) of a natural number
Str(n) ==
  IF n < 10 THEN <<Digits[n + 1]>>
  ELSE Str(n \div 10) \o <<Digits[(n % 10) + 1]>>

RECURSIVE PartsLoop(_, _, _)
\* The loop the PDF, DOCX and CSV extractors share (lines 43-53, 64-73,
\* 111-124): items[i].part is what turn i appends when items[i].keep;
\* reading item i may raise; after each turn the joined parts are cut and
\* returned as soon as they are longer than max_text_length.
PartsLoop(items, i, text_parts) ==
  IF i > Len(items) THEN Text(Join(text_parts, NL))
  ELSE IF items[i].raises THEN Raise("Exception")
  ELSE LET parts == IF items[i].keep THEN Append(text_parts, items[i].part)
                    ELSE text_parts
           combined_text == Join(parts, NL)
       IN IF Len(combined_text) > max_text_length
          THEN Text(Slice(combined_text, max_text_length))
          ELSE PartsLoop(items, i + 1, parts)

\* _extract_from_pdf: PdfReader(file_path) raises (doc.fault) or gives the
\* pages; a page's text is kept "if text"
extract_from_pdf(doc) ==
  Catch(IF doc.fault # "none" THEN Raise(doc.fault)
        ELSE PartsLoop([i \in 1..Len(doc.items) |->
                          [part |-> doc.items[i].text,
                           keep |-> doc.items[i].text # << >>,
                           raises |-> doc.items[i].raises]], 1, << >>))

\* _extract_from_docx: a paragraph is kept "if paragraph.text.strip()"
extract_from_docx(doc) ==
  Catch(IF doc.fault # "none" THEN Raise(doc.fault)
        ELSE PartsLoop([i \in 1..Len(doc.items) |->
                          [part |-> doc.items[i].text,
                           keep |-> Strip(doc.items[i].text) # << >>,
                           raises |-> doc.items[i].raises]], 1, << >>))

\* A variant that counts the header row as row 1
CsvLineFromOne(row_num, row) ==
  IF row_num = 0
  THEN <<"H", "e", "a", "d", "e", "r", "s", ":", " ">> \o Join(row, <<",", " ">>)
  ELSE <<"R", "o", "w", " ">> \o Str(row_num + 1) \o <<":", " ">>
       \o Join(row, <<",", " ">>)

\* "Headers: " + ", ".join(row)  and  "Row {}: {}".format(row_num, ...)
CsvLine(row_num, row) ==
  IF row_num = 0
  THEN <<"H", "e", "a", "d", "e", "r", "s", ":", " ">> \o Join(row, <<",", " ">>)
  ELSE <<"R", "o", "w", " ">> \o Str(row_num) \o <<":", " ">>
       \o Join(row, <<",", " ">>)

\* _extract_from_csv: open or the sniffer raises (doc.fault), or csv.reader
\* gives the rows, each a sequence of cells; row_num counts from 0
extract_from_csv(doc) ==
  Catch(IF doc.fault # "none" THEN Raise(doc.fault)
        ELSE PartsLoop([i \in 1..Len(doc.items) |->
                          [part |-> CsvLine(i - 1, doc.items[i].cells),
                           keep |-> TRUE,
                           raises |-> doc.items[i].raises]], 1, << >>))

\* aiofiles.open(file_path, 'r', encoding=...) and f.read(): the content, or
\* the exception doc.fault names.  Any bytes decode as latin-1, so only the
\* open can fail there ("DecodeThenOSError").
TxtFaults == {"none", "UnicodeDecodeError", "OSError", "DecodeThenOSError"}

read(doc, encoding) ==
  IF encoding = "utf-8"
  THEN IF doc.fault \in {"UnicodeDecodeError", "DecodeThenOSError"}
       THEN Raise("UnicodeDecodeError")
       ELSE IF doc.fault = "OSError" THEN Raise("OSError")
       ELSE Text(doc.content)
  ELSE IF doc.fault = "DecodeThenOSError" THEN Raise("OSError")
       ELSE Text(doc.content)

\* The body of both try blocks of _extract_from_txt: read, then cut
ReadCut(doc, encoding) ==
  LET r == read(doc, encoding)
  IN IF r.kind = "text" THEN Text(Cut(r.text)) ELSE r

\* _extract_from_txt: utf-8, on UnicodeDecodeError latin-1, None on any other
\* exception
extract_from_txt(doc) ==
  LET r == ReadCut(doc, "utf-8")
  IN IF r = Raise("UnicodeDecodeError") THEN Catch(ReadCut(doc, "latin-1"))
     ELSE Catch(r)

\* The least index j >= i with s[j] = c, or 0
IndexFrom(s, c, i) ==
  IF \E j \in i..Len(s) : s[j] = c
  THEN CHOOSE j \in i..Len(s) : s[j] = c /\ \A h \in i..(j - 1) : s[h] # c
  ELSE 0

Has(s, c) == \E j \in 1..Len(s) : s[j] = c

RECURSIVE Split(_)
\* content.split('\n')
Split(s) ==
  LET j == IndexFrom(s, "\n", 1)
  IN IF j = 0 THEN <<s>>
     ELSE <<SubSeq(s, 1, j - 1)>> \o Split(SubSeq(s, j + 1, Len(s)))

RECURSIVE Without(_, _)
\* line.replace(c, '')
Without(s, c) ==
  IF s = << >> THEN << >>
  ELSE IF s[1] = c THEN Without(Tail(s), c)
  ELSE <<s[1]>> \o Without(Tail(s), c)

RECURSIVE WithoutPairs(_, _)
\* line.replace(c + c, '')
WithoutPairs(s, c) ==
  IF Len(s) < 2 THEN s
  ELSE IF s[1] = c /\ s[2] = c THEN WithoutPairs(SubSeq(s, 3, Len(s)), c)
  ELSE <<s[1]>> \o WithoutPairs(Tail(s), c)

RECURSIVE SubLinks(_, _)
\* re.sub(r'\[([^\]]+)\]\([^)]+\)', r'\1', line), from position i on: at a
\* "[" followed by one or more characters that are not "]", then "](", one
\* or more characters that are not ")", and ")", keep the first group
SubLinks(s, i) ==
  IF i > Len(s) THEN << >>
  ELSE LET j == IndexFrom(s, "]", i + 1)
           k == IF j = 0 THEN 0 ELSE IndexFrom(s, ")", j + 2)
       IN IF /\ s[i] = "[" /\ j > i + 1
             /\ j < Len(s) /\ s[j + 1] = "("
             /\ k > j + 2
          THEN SubSeq(s, i + 1, j - 1) \o SubLinks(s, k + 1)
          ELSE <<s[i]>> \o SubLinks(s, i + 1)

\* One turn of the loop of _clean_markdown: the lines it appends
CleanLine(line) ==
  IF line # << >> /\ line[1] = "#" THEN <<Strip(LStrip(line, {"#"}))>>
  ELSE IF Len(line) >= 3 /\ SubSeq(line, 1, 3) = <<Backquote, Backquote, Backquote>> THEN << >>
  ELSE IF Has(line, Backquote) THEN <<Without(line, Backquote)>>
  ELSE IF Has(line, "*") THEN <<Without(WithoutPairs(line, "*"), "*")>>
  ELSE IF Has(line, "[") /\ Has(line, "]") THEN <<SubLinks(line, 1)>>
  ELSE <<line>>

RECURSIVE CleanLines(_)
CleanLines(lines) ==
  IF lines = << >> THEN << >>
  ELSE CleanLine(lines[1]) \o CleanLines(Tail(lines))

\* _clean_markdown
clean_markdown(content) == Join(CleanLines(Split(content)), NL)

\* _extract_from_markdown: utf-8 only
extract_from_markdown(doc) ==
  LET r == read(doc, "utf-8")
  IN Catch(IF r.kind = "text" THEN Text(Cut(clean_markdown(r.text))) ELSE r)

Docx == "application/vnd.openxmlformats-officedocument.wordprocessingml.document"

\* A variant of the dispatch with no extractor for the other MIME types
extract_text_known_only(doc, mime_type) ==
  Catch(IF mime_type = "application/pdf" THEN extract_from_pdf(doc)
        ELSE IF mime_type = Docx THEN extract_from_docx(doc)
        ELSE IF mime_type = "text/plain" THEN extract_from_txt(doc)
        ELSE IF mime_type = "text/csv" THEN extract_from_csv(doc)
        ELSE IF mime_type = "text/markdown" THEN extract_from_markdown(doc)
        ELSE Absent)

\* TextExtractor.extract_text of the document at file_path (doc: what its
\* readers give), lines 17-35
extract_text_of(doc, mime_type) ==
  Catch(IF mime_type = "application/pdf" THEN extract_from_pdf(doc)
        ELSE IF mime_type = Docx THEN extract_from_docx(doc)
        ELSE IF mime_type = "text/plain" THEN extract_from_txt(doc)
        ELSE IF mime_type = "text/csv" THEN extract_from_csv(doc)
        ELSE IF mime_type = "text/markdown" THEN extract_from_markdown(doc)
        ELSE extract_from_txt(doc))

\* s.rfind(c): the greatest index (from 0) of c in s, or -1
RFind(s, c) ==
  IF Has(s, c)
  THEN (CHOOSE j \in 1..Len(s) : s[j] = c /\ \A h \in (j + 1)..Len(s) : s[h] # c) - 1
  ELSE -1

Ellipsis == <<".", ".", ".">>

\* A variant that backs up to the last period wherever it is
get_text_summary_any_period(text, none, max_length) ==
  IF none \/ text = << >> THEN << >>
  ELSE IF Len(text) <= max_length THEN text
  ELSE LET truncated == Slice(text, max_length)
           last_sentence == RFind(truncated, ".")
       IN IF last_sentence > 0
          THEN Slice(truncated, last_sentence + 1)
          ELSE truncated \o Ellipsis

\* get_text_summary(text, max_length); none: text is None.  The test
\* last_sentence > max_length * 0.7 is made on integers (both sides times 10).
get_text_summary(text, none, max_length) ==
  IF none \/ text = << >> THEN << >>
  ELSE IF Len(text) <= max_length THEN text
  ELSE LET truncated == Slice(text, max_length)
           last_sentence == RFind(truncated, ".")
       IN IF 10 * last_sentence > 7 * max_length
          THEN Slice(truncated, last_sentence + 1)
          ELSE truncated \o Ellipsis

\* The default of max_length, 500 in the source, scaled to the texts below
default_max_length == 10

\* The documents extract_text is applied to.  doc.content is what reading the
\* file gives, doc.items the pages, paragraphs or rows a reader gives
\* (items[i].raises: reading item i raises), doc.fault the exception that
\* opening the file raises.
MaxLen == 24
MaxParts == 3
MaxMdLen == 4

Long(n) == [i \in 1..n |-> Digits[(i % 10) + 1]]
SeqsUpTo(S, n) == UNION {[1..k -> S] : k \in 0..n}

Doc(content, items, fault) ==
  [content |-> content, items |-> items, fault |-> fault, delimiter |-> ","]
Item(text, cells, raises) == [text |-> text, cells |-> cells, raises |-> raises]

TxtContents == {Long(n) : n \in 0..MaxLen}

MdChars == {"a", "#", Backquote, "*", " ", "\n"}
LinkLines ==
  {pre \o <<"[">> \o t \o <<"]">> \o mid \o u \o <<")">> \o post :
     pre \in {<< >>, <<"x">>},
     t \in {<< >>, <<"a">>, <<"a", "[">>, Long(MaxLen)},
     mid \in {<< >>, <<"(">>},
     u \in {<< >>, <<"u">>, <<"u", "(">>},
     post \in {<< >>, <<"y">>, <<"[", "b", "]", "(", "v", ")">>}}
Fence == <<Backquote, Backquote, Backquote>>
FencedBlocks ==
  {pre \o Fence \o lang \o NL \o body \o Fence \o post :
     pre \in {<< >>, <<"x", "\n">>},
     lang \in {<< >>, <<"p", "y">>},
     body \in {<< >>, <<"a", "\n">>, <<"a", "\n", "#", "b", "\n">>},
     post \in {<< >>, <<"\n", "y">>}}
MdContents ==
  SeqsUpTo(MdChars, MaxMdLen) \cup LinkLines \cup FencedBlocks
    \cup {<<"#", " ">> \o Long(n) \o <<"\n", "*">> : n \in 0..MaxLen}

PartTexts == {<< >>, <<" ">>, Long(5), Long(9)}
PartItems ==
  {Item(t, << >>, FALSE) : t \in PartTexts} \cup {Item(<< >>, << >>, TRUE)}

\* The delimiters csv.Sniffer().sniff(sample) detects (line 107)
Delimiters == {",", ";"}

RECURSIVE SplitBy(_, _)
\* The fields csv.reader(csvfile, delimiter=delimiter) gives for one line of
\* unquoted fields; an empty line gives the empty row
SplitBy(s, d) ==
  LET j == IndexFrom(s, d, 1)
  IN IF j = 0 THEN <<s>>
     ELSE <<SubSeq(s, 1, j - 1)>> \o SplitBy(SubSeq(s, j + 1, Len(s)), d)

ParseRow(line, d) == IF line = << >> THEN << >> ELSE SplitBy(line, d)

\* The lines of a CSV file with delimiter d, and the rows read from them
\* (text: the line, cells: its fields)
Rows(d) == {<< >>, <<"a">>, <<"a", d, "b", "c">>, Long(12)}
RowItems(d) ==
  {Item(line, ParseRow(line, d), FALSE) : line \in Rows(d)}
    \cup {Item(<< >>, << >>, TRUE)}

CsvDoc(items, fault, d) == [Doc(<< >>, items, fault) EXCEPT !.delimiter = d]

OpenFaults == {"none", "OSError"}
OtherMimes == {"application/octet-stream", "application/json"}

Job(mime_type, doc) == [mime_type |-> mime_type, doc |-> doc]

Jobs ==
  {Job(m, Doc(c, << >>, f)) :
     m \in {"text/plain"} \cup OtherMimes, c \in TxtContents, f \in TxtFaults}
  \cup {Job("text/markdown", Doc(c, << >>, f)) : c \in MdContents, f \in TxtFaults}
  \cup {Job(m, Doc(<< >>, items, f)) :
          m \in {"application/pdf", Docx},
          items \in SeqsUpTo(PartItems, MaxParts), f \in OpenFaults}
  \cup UNION {{Job("text/csv", CsvDoc(items, f, d)) :
                  items \in SeqsUpTo(RowItems(d), MaxParts), f \in OpenFaults} :
               d \in Delimiters}

\* The texts get_text_summary is applied to: up to three characters longer
\* than max_length, of letters and periods; doc.fault "None" is the text None
SummaryTexts == SeqsUpTo({"a", "."}, default_max_length + 3)
SummaryJobs ==
  {Job("summary", Doc(t, << >>, "none")) : t \in SummaryTexts}
    \cup {Job("summary", Doc(<< >>, << >>, "None"))}

NoJob == Job("", Doc(<< >>, << >>, "none"))
NoOut == [kind |-> "idle", text |-> << >>]

----------------------------------------------------------------------------
NoFile == [filename |-> NoFilename, size |-> NoSize, body |-> ""]
NoDelete == [id |-> 0, path |-> 0, ret |-> "none"]

\* No cleanup_orphaned_files call has just returned (ret = -1); otherwise ret
\* is the value returned, orphaned the paths it found unreferenced, removed
\* those it deleted, prev the value the call right before it returned (-1 if
\* the step before was no such call) and prevfailed whether a deletion of
\* that call failed.
NoRecon ==
  [ret |-> -1, orphaned |-> {}, removed |-> {}, prev |-> -1, prevfailed |-> FALSE]

\* No cleanup_orphaned_files call is in progress
NoSweep ==
  [pc |-> "idle", db_files |-> {}, disk_files |-> {}, orphaned |-> {},
   todo |-> {}, removed |-> {}]

Init ==
  /\ disk = << >>
  /\ db = << >>
  /\ pc = [u \in Uploads |-> "idle"]
  /\ file = [u \in Uploads |-> NoFile]
  /\ file_record = [u \in Uploads |-> NoRecord]
  /\ result = [u \in Uploads |-> "none"]
  /\ last = NoDelete
  /\ recon = NoRecon
  /\ sweep = NoSweep
  /\ job = NoJob
  /\ out = NoOut
  /\ extracted_text = [u \in Uploads |-> NoText]

\* The calls of upload_file run one after another: call u starts when the
\* calls before it have returned.
Sequential(u) == \A v \in Uploads : v < u => pc[v] = "done"

\* upload_file returns rec, or raises the error res
Finish(u, res, rec) ==
  /\ pc' = [pc EXCEPT ![u] = "done"]
  /\ result' = [result EXCEPT ![u] = res]
  /\ file_record' = [file_record EXCEPT ![u] = rec]

\* A variant of the except block that empties the upload directory
CleanupAll(u, path, rm) ==
  /\ disk' = IF path \in DOMAIN disk /\ rm THEN << >> ELSE disk
  /\ Finish(u, IF path \in DOMAIN disk /\ ~rm THEN "RemoveError" ELSE "UploadFailed",
            NoRecord)

\* The except block of upload_file: remove the blob if it exists (rm: os.remove
\* succeeds), raise HTTPException(500); a failing os.remove propagates instead.
Cleanup(u, path, rm) ==
  /\ disk' = IF path \in DOMAIN disk /\ rm THEN Remove(disk, path) ELSE disk
  /\ Finish(u, IF path \in DOMAIN disk /\ ~rm THEN "RemoveError" ELSE "UploadFailed",
            NoRecord)

\* A variant of upload_file that calls save_file before validate_file: the
\* bytes are on disk when the file is rejected.
UploadValidateAfterSave(u) ==
  /\ pc[u] = "idle"
  /\ Sequential(u)
  /\ \E f \in UploadFiles :
       /\ file' = [file EXCEPT ![u] = f]
       /\ disk' = Put(disk, u, f.body)
       /\ IF validate_file(f).error = "none"
          THEN /\ pc' = [pc EXCEPT ![u] = "commit"]
               /\ UNCHANGED <<result, file_record>>
          ELSE Finish(u, validate_file(f).error, NoRecord)
  /\ last' = NoDelete
  /\ recon' = NoRecon
  /\ UNCHANGED <<sweep, job, out, extracted_text>>
  /\ UNCHANGED db

\* upload_file, line 130, called with one of files: validate_file raises, or
\* the call goes on to save_file
UploadStart(u, files) ==
  /\ pc[u] = "idle"
  /\ \E f \in files :
       /\ file' = [file EXCEPT ![u] = f]
       /\ IF validate_file(f).error = "none"
          THEN /\ pc' = [pc EXCEPT ![u] = "save"]
               /\ UNCHANGED <<result, file_record>>
          ELSE Finish(u, validate_file(f).error, NoRecord)
  /\ last' = NoDelete
  /\ recon' = NoRecon
  /\ UNCHANGED <<sweep, job, out, extracted_text>>
  /\ UNCHANGED <<disk, db>>

UploadValidate(u) == Sequential(u) /\ UploadStart(u, UploadFiles)

\* save_file, line 86: aiofiles.open(file_path, 'wb') creates the empty file at
\* the fresh path, or raises
SaveOpen(u) ==
  /\ pc[u] = "save"
  /\ \/ /\ disk' = Put(disk, u, "")
        /\ pc' = [pc EXCEPT ![u] = "write"]
        /\ UNCHANGED <<result, file_record>>
     \/ /\ Finish(u, "OpenError", NoRecord)
        /\ UNCHANGED disk
  /\ last' = NoDelete
  /\ recon' = NoRecon
  /\ UNCHANGED <<sweep, job, out, extracted_text>>
  /\ UNCHANGED <<db, file>>

\* save_file, lines 87-88: file.read() then f.write(content); either may raise,
\* and the exception leaves save_file and upload_file (no try block is open)
SaveWrite(u) ==
  /\ pc[u] = "write"
  /\ \/ /\ disk' = Put(disk, u, file[u].body)
        /\ pc' = [pc EXCEPT ![u] = "commit"]
        /\ UNCHANGED <<result, file_record>>
     \/ /\ Finish(u, "ReadError", NoRecord)
        /\ UNCHANGED disk
     \/ /\ PartialOf(file[u].body) # ""
        /\ disk' = Put(disk, u, PartialOf(file[u].body))
        /\ Finish(u, "WriteError", NoRecord)
  /\ last' = NoDelete
  /\ recon' = NoRecon
  /\ UNCHANGED <<sweep, job, out, extracted_text>>
  /\ UNCHANGED <<db, file>>

\* upload_file, lines 137-156: get_file_metadata, File(...), db.add, db.commit,
\* db.refresh; commit or refresh may raise into the except block
CreateFaults == {"none", "commit", "refresh"}

UploadCommit(u) ==
  /\ pc[u] = "commit"
  /\ \E mfault \in MetaFaults, cfault \in CreateFaults, rm \in BOOLEAN :
       LET rec == NewFile(u, file[u], validate_file(file[u]), u,
                          get_file_metadata(disk, u, mfault))
       IN /\ cfault = "none" => ~rm
          /\ db' = IF cfault = "commit" THEN db ELSE Put(db, u, rec)
          /\ IF cfault = "none"
             THEN /\ pc' = [pc EXCEPT ![u] = "process"]
                  /\ file_record' = [file_record EXCEPT ![u] = rec]
                  /\ UNCHANGED <<disk, result>>
             ELSE Cleanup(u, u, rm)
  /\ last' = NoDelete
  /\ recon' = NoRecon
  /\ UNCHANGED <<sweep, job, out, extracted_text>>
  /\ UNCHANGED file

----------------------------------------------------------------------------
\* TextExtractor.extract_text on the blobs that occur: the text, or None
\* (NoText) when the extractor fails inside (fault) or the file is gone.  A
\* blob no branch of the dispatch names is read as plain text, cut at
\* max_text_length; the bytes "BIG" are no PDF document.
Truncated(b) == IF b = "BIG" THEN "BIG[:50000]" ELSE b

extract_text(d, path, mime, fault) ==
  IF fault \/ path \notin DOMAIN d THEN NoText
  ELSE IF mime = "application/pdf" THEN NoText
  ELSE Truncated(d[path])

\* "if extracted_text:" is false for None and for the empty string
Truthy(t) == t # NoText /\ t # ""

\* AudioProcessor.get_metadata returns one of these mappings (the last has a
\* key the metadata of get_file_metadata has too), or raises
AudioResults ==
  {<< >>, [duration |-> 3], [duration |-> 3, mime_type |-> "audio/mpeg"]}

\* A variant of the except block that records the error and leaves the status
FailedStatusKept(rec, e) ==
  [rec EXCEPT !.metadata = Merge(@, [processing_error |-> e])]

\* The except block of process_file, lines 194-198
Failed(rec, e) ==
  [rec EXCEPT !.processing_status = "failed",
              !.metadata = Merge(@, [processing_error |-> e])]

\* A variant of the except block that also forgets the path of the blob
HandlerClearsPath(u, rec, e) ==
  \E ok \in BOOLEAN, rm \in BOOLEAN :
    LET failed == [Failed(rec, e) EXCEPT !.file_path = 0]
    IN IF ok
       THEN /\ ~rm
            /\ db' = Put(db, u, failed)
            /\ Finish(u, "ok", failed)
            /\ UNCHANGED disk
       ELSE /\ UNCHANGED db
            /\ Cleanup(u, rec.file_path, rm)

\* The except block of process_file with its db.commit() (line 199): the
\* commit succeeds and upload_file returns the record, or it raises into the
\* except block of upload_file
Handler(u, rec, e) ==
  \E ok \in BOOLEAN, rm \in BOOLEAN :
    IF ok
    THEN /\ ~rm
         /\ db' = Put(db, u, Failed(rec, e))
         /\ Finish(u, "ok", Failed(rec, e))
         /\ UNCHANGED disk
    ELSE /\ UNCHANGED db
         /\ Cleanup(u, rec.file_path, rm)

\* A variant of process_file that sets "processing" only for the file types
\* that have an extraction step
ProcessBeginExtractingOnly(u) ==
  /\ pc[u] = "process"
  /\ LET rec == [file_record[u] EXCEPT !.processing_status = "processing"]
     IN IF rec.file_type \in {"document", "audio"}
        THEN \/ /\ db' = Put(db, u, rec)
                /\ file_record' = [file_record EXCEPT ![u] = rec]
                /\ pc' = [pc EXCEPT ![u] = "extract"]
                /\ UNCHANGED <<disk, result>>
             \/ Handler(u, rec, "commit failed")
        ELSE /\ pc' = [pc EXCEPT ![u] = "extract"]
             /\ UNCHANGED <<db, disk, result, file_record>>
  /\ last' = NoDelete
  /\ recon' = NoRecon
  /\ UNCHANGED <<sweep, job, out, extracted_text>>
  /\ UNCHANGED file

\* process_file, lines 172-173: status "processing" and its commit
ProcessBegin(u) ==
  /\ pc[u] = "process"
  /\ LET rec == [file_record[u] EXCEPT !.processing_status = "processing"]
     IN \/ /\ db' = Put(db, u, rec)
           /\ file_record' = [file_record EXCEPT ![u] = rec]
           /\ pc' = [pc EXCEPT ![u] = "extract"]
           /\ UNCHANGED <<disk, result>>
        \/ Handler(u, rec, "commit failed")
  /\ last' = NoDelete
  /\ recon' = NoRecon
  /\ UNCHANGED <<sweep, job, out, extracted_text>>
  /\ UNCHANGED file

\* process_file, lines 175-191: the extraction by file type, the status
\* "completed" and its commit
\* A variant that returns the completed record without committing it
CompleteUncommitted(u, rec) ==
  LET done == [rec EXCEPT !.processing_status = "completed"]
  IN /\ Finish(u, "ok", done)
     /\ UNCHANGED <<db, disk>>

Complete(u, rec) ==
  LET done == [rec EXCEPT !.processing_status = "completed"]
  IN \/ /\ db' = Put(db, u, done)
        /\ Finish(u, "ok", done)
        /\ UNCHANGED disk
     \/ Handler(u, done, "commit failed")

\* A variant that calls the text extractor for every file type
ProcessRunExtractsAll(u) ==
  /\ pc[u] = "extract"
  /\ LET rec == file_record[u]
     IN \E fault \in BOOLEAN :
          LET t == extract_text(disk, rec.file_path, rec.mime_type, fault)
          IN /\ extracted_text' = [extracted_text EXCEPT ![u] = t]
             /\ Complete(u, IF Truthy(t)
                            THEN [rec EXCEPT !.extracted_text = t] ELSE rec)
  /\ last' = NoDelete
  /\ recon' = NoRecon
  /\ UNCHANGED <<sweep, job, out>>
  /\ UNCHANGED file

ProcessRun(u) ==
  /\ pc[u] = "extract"
  /\ LET rec == file_record[u]
     IN IF rec.file_type = "document"
        THEN \E fault \in BOOLEAN :
               LET t == extract_text(disk, rec.file_path, rec.mime_type, fault)
               IN /\ extracted_text' = [extracted_text EXCEPT ![u] = t]
                  /\ Complete(u, IF Truthy(t)
                                 THEN [rec EXCEPT !.extracted_text = t] ELSE rec)
        ELSE IF rec.file_type = "audio"
        THEN /\ \/ \E a \in AudioResults :
                     Complete(u, [rec EXCEPT !.metadata = Merge(@, a)])
                \/ Handler(u, rec, "audio failed")
             /\ UNCHANGED extracted_text
        ELSE /\ Complete(u, rec)
             /\ UNCHANGED extracted_text
  /\ last' = NoDelete
  /\ recon' = NoRecon
  /\ UNCHANGED <<sweep, job, out>>
  /\ UNCHANGED file

----------------------------------------------------------------------------
\* get_file: the row with this id, or None
get_file(id) == IF id \in DOMAIN db THEN db[id] ELSE NoRecord

\* The ids delete_file is called with: those of the upload calls, and one
\* that no record ever has.  last.ret is the value returned ("True",
\* "False") or the exception that left the call.
DeleteIds == Uploads \cup {MaxUploads + 1}

\* A variant of delete_file that deletes the record and leaves the blob
DeleteFileKeepsBlob(id) ==
  /\ id \in Uploads => pc[id] \in {"idle", "done"}
  /\ IF get_file(id) = NoRecord
     THEN /\ last' = [id |-> id, path |-> 0, ret |-> "False"]
          /\ UNCHANGED db
     ELSE /\ db' = Remove(db, id)
          /\ last' = [id |-> id, path |-> get_file(id).file_path, ret |-> "True"]
  /\ recon' = NoRecon
  /\ UNCHANGED <<disk, pc, file, file_record, result, sweep, job, out, extracted_text>>

\* delete_file, as one call: False when there is no record; else os.remove
\* of the blob if it exists, db.delete and db.commit, each of which may raise.
\* It is called with the id of no call that is still running.
DeleteFile(id) ==
  /\ id \in Uploads => pc[id] \in {"idle", "done"}
  /\ IF get_file(id) = NoRecord
     THEN /\ last' = [id |-> id, path |-> 0, ret |-> "False"]
          /\ UNCHANGED <<disk, db>>
     ELSE LET path == get_file(id).file_path
          IN \/ /\ path \in DOMAIN disk
                /\ last' = [id |-> id, path |-> path, ret |-> "RemoveError"]
                /\ UNCHANGED <<disk, db>>
             \/ /\ disk' = Remove(disk, path)
                /\ \/ /\ db' = Remove(db, id)
                      /\ last' = [id |-> id, path |-> path, ret |-> "True"]
                   \/ /\ last' = [id |-> id, path |-> path, ret |-> "CommitError"]
                      /\ UNCHANGED db
  /\ recon' = NoRecon
  /\ UNCHANGED <<pc, file, file_record, result, sweep, job, out, extracted_text>>

----------------------------------------------------------------------------
\* A variant that takes the rows whose processing failed for dead
FilePathsNotFailed(rows) ==
  {rows[id].file_path :
     id \in {i \in DOMAIN rows : rows[i].processing_status # "failed"}}

\* The file paths of the rows: {f.file_path for f in db.query(File).all()}
FilePaths(rows) == {rows[id].file_path : id \in DOMAIN rows}

\* The blob store without the paths in ps
RemoveAll(d, ps) == [q \in DOMAIN d \ ps |-> d[q]]

\* A variant that returns len(disk_files)
CountDiskFiles(disk_files, orphaned_files) == Cardinality(disk_files)

\* return len(orphaned_files)
CountOrphaned(disk_files, orphaned_files) == Cardinality(orphaned_files)

\* cleanup_orphaned_files, as one call: the paths on disk that no row names
\* are removed one by one; os.remove raises OSError for those in failed,
\* which is swallowed.
CleanupOrphanedFiles ==
  /\ sweep.pc = "idle"
  /\ LET db_files == FilePaths(db)
         disk_files == DOMAIN disk
         orphaned_files == disk_files \ db_files
     IN \E failed \in SUBSET orphaned_files :
          /\ disk' = RemoveAll(disk, orphaned_files \ failed)
          /\ recon' = [ret |-> CountOrphaned(disk_files, orphaned_files),
                       orphaned |-> orphaned_files,
                       removed |-> orphaned_files \ failed,
                       prev |-> recon.ret,
                       prevfailed |-> recon.removed # recon.orphaned]
  /\ last' = NoDelete
  /\ UNCHANGED <<db, pc, file, file_record, result, sweep, job, out, extracted_text>>

----------------------------------------------------------------------------
Next ==
  \/ \E u \in Uploads : UploadValidate(u)
  \/ \E u \in Uploads : SaveOpen(u)
  \/ \E u \in Uploads : SaveWrite(u)
  \/ \E u \in Uploads : UploadCommit(u)
  \/ \E u \in Uploads : ProcessBegin(u)
  \/ \E u \in Uploads : ProcessRun(u)
  \/ \E id \in DeleteIds : DeleteFile(id)

Spec == Init /\ [][Next]_vars

\* A call of upload_file that has started goes on: every statement of it
\* returns or raises (no await hangs), so its next step is taken
UploadStep(u) ==
  \/ UploadValidate(u)
  \/ SaveOpen(u)
  \/ SaveWrite(u)
  \/ UploadCommit(u)
  \/ ProcessBegin(u)
  \/ ProcessRun(u)

SpecL == Spec /\ \A u \in Uploads : WF_vars(UploadStep(u))

\* The service with reconciliation: cleanup_orphaned_files runs as one call,
\* between any two steps of the other calls.  The upload directory may exist
\* before the service does (mkdir(exist_ok=True)) and hold a stray file.
StrayPath == 0

InitR ==
  /\ disk \in {<< >>, [p \in {StrayPath} |-> "B"]}
  /\ db = << >>
  /\ pc = [u \in Uploads |-> "idle"]
  /\ file = [u \in Uploads |-> NoFile]
  /\ file_record = [u \in Uploads |-> NoRecord]
  /\ result = [u \in Uploads |-> "none"]
  /\ last = NoDelete
  /\ recon = NoRecon
  /\ sweep = NoSweep
  /\ job = NoJob
  /\ out = NoOut
  /\ extracted_text = [u \in Uploads |-> NoText]

NextR ==
  \/ Next
  \/ CleanupOrphanedFiles

SpecR == InitR /\ [][NextR]_vars

----------------------------------------------------------------------------
\* cleanup_orphaned_files step by step, as it runs while an upload call is
\* between two of its awaits or in another worker: sweep holds the locals of
\* the call.

\* line 247: the snapshot of the record paths
SweepSnapshot ==
  /\ sweep.pc = "idle"
  /\ sweep' = [NoSweep EXCEPT !.pc = "list", !.db_files = FilePaths(db)]
  /\ last' = NoDelete
  /\ recon' = NoRecon
  /\ UNCHANGED <<disk, db, pc, file, file_record, result, job, out, extracted_text>>

\* lines 248-254: the listing of the upload directory, and the difference
SweepList ==
  /\ sweep.pc = "list"
  /\ LET disk_files == DOMAIN disk
         orphaned_files == disk_files \ sweep.db_files
     IN sweep' = [sweep EXCEPT !.pc = "remove", !.disk_files = disk_files,
                               !.orphaned = orphaned_files,
                               !.todo = orphaned_files]
  /\ UNCHANGED <<disk, db, pc, file, file_record, result, last, recon, job, out, extracted_text>>

\* lines 256-260: one turn of the loop; os.remove removes the file (ok) or
\* raises OSError, which is passed over
SweepRemove ==
  /\ sweep.pc = "remove"
  /\ \E file_path \in sweep.todo, ok \in BOOLEAN :
       LET gone == ok /\ file_path \in DOMAIN disk
       IN /\ disk' = IF gone THEN Remove(disk, file_path) ELSE disk
          /\ sweep' = [sweep EXCEPT !.todo = @ \ {file_path},
                                    !.removed = IF gone THEN @ \cup {file_path}
                                                ELSE @]
  /\ UNCHANGED <<db, pc, file, file_record, result, last, recon, job, out, extracted_text>>

\* line 262: the call returns
SweepReturn ==
  /\ sweep.pc = "remove"
  /\ sweep.todo = {}
  /\ recon' = [ret |-> CountOrphaned(sweep.disk_files, sweep.orphaned),
               orphaned |-> sweep.orphaned,
               removed |-> sweep.removed,
               prev |-> recon.ret,
               prevfailed |-> recon.removed # recon.orphaned]
  /\ sweep' = NoSweep
  /\ UNCHANGED <<disk, db, pc, file, file_record, result, last, job, out, extracted_text>>

\* Upload calls and a cleanup call, every interleaving of their steps
NextC ==
  \/ \E u \in Uploads :
       \/ UploadValidate(u)
       \/ SaveOpen(u)
       \/ SaveWrite(u)
       \/ UploadCommit(u)
       \/ ProcessBegin(u)
       \/ ProcessRun(u)
  \/ SweepSnapshot
  \/ SweepList
  \/ SweepRemove
  \/ SweepReturn

SpecC == InitR /\ [][NextC]_vars

----------------------------------------------------------------------------
\* Concurrent requests: each call of upload_file has its own session and its
\* own fresh token, and the calls take their steps in any order.
Calls == 1..(MaxUploads + 1)

ConcurrentFiles ==
  {[filename |-> Name("notes", ".txt"), size |-> ByteLen("hello world"),
    body |-> "hello world"],
   [filename |-> Name("my talk", ".MP3"), size |-> ByteLen("hello"),
    body |-> "hello"],
   [filename |-> Name("run", ".exe"), size |-> ByteLen("hello"),
    body |-> "hello"]}

InitP ==
  /\ disk = << >>
  /\ db = << >>
  /\ pc = [u \in Calls |-> "idle"]
  /\ file = [u \in Calls |-> NoFile]
  /\ file_record = [u \in Calls |-> NoRecord]
  /\ result = [u \in Calls |-> "none"]
  /\ last = NoDelete
  /\ recon = NoRecon
  /\ sweep = NoSweep
  /\ job = NoJob
  /\ out = NoOut
  /\ extracted_text = [u \in Calls |-> NoText]

UploadValidateConcurrent(u) == UploadStart(u, ConcurrentFiles)

NextP ==
  \E u \in Calls :
    \/ UploadValidateConcurrent(u)
    \/ SaveOpen(u)
    \/ SaveWrite(u)
    \/ UploadCommit(u)
    \/ ProcessBegin(u)
    \/ ProcessRun(u)

SpecP == InitP /\ [][NextP]_vars

----------------------------------------------------------------------------
\* TextExtractor on its own: one call of extract_text on any of the documents
InitX ==
  /\ disk = << >>
  /\ db = << >>
  /\ pc = [u \in Uploads |-> "idle"]
  /\ file = [u \in Uploads |-> NoFile]
  /\ file_record = [u \in Uploads |-> NoRecord]
  /\ result = [u \in Uploads |-> "none"]
  /\ last = NoDelete
  /\ recon = NoRecon
  /\ sweep = NoSweep
  /\ job \in Jobs
  /\ out = NoOut
  /\ extracted_text = [u \in Uploads |-> NoText]

ExtractText ==
  /\ out = NoOut
  /\ out' = extract_text_of(job.doc, job.mime_type)
  /\ UNCHANGED <<disk, db, pc, file, file_record, result, last, recon, sweep, job, extracted_text>>

NextX == ExtractText

SpecX == InitX /\ [][NextX]_vars

\* One call of get_text_summary with the default max_length
InitS ==
  /\ disk = << >>
  /\ db = << >>
  /\ pc = [u \in Uploads |-> "idle"]
  /\ file = [u \in Uploads |-> NoFile]
  /\ file_record = [u \in Uploads |-> NoRecord]
  /\ result = [u \in Uploads |-> "none"]
  /\ last = NoDelete
  /\ recon = NoRecon
  /\ sweep = NoSweep
  /\ job \in SummaryJobs
  /\ out = NoOut
  /\ extracted_text = [u \in Uploads |-> NoText]

GetTextSummary ==
  /\ out = NoOut
  /\ out' = Text(get_text_summary(job.doc.content, job.doc.fault = "None",
                                  default_max_length))
  /\ UNCHANGED <<disk, db, pc, file, file_record, result, last, recon, sweep, job, extracted_text>>

NextS == GetTextSummary

SpecS == InitS /\ [][NextS]_vars

----------------------------------------------------------------------------
Statuses == {"pending", "processing", "completed", "failed"}
Oversize(f) == ByteLen(f.body) > max_file_size
Returned(u) == result[u] = "ok"
Errored(u) == result[u] \notin {"none", "ok"}

\* C1: each record's status is one of pending, processing, completed, failed;
\* a record is created pending, and its durable status only ever changes
\* pending -> processing, processing -> completed or processing -> failed.
C1_StatusLifecycle ==
  [][\A id \in DOMAIN db' :
       /\ db'[id].processing_status \in Statuses
       /\ id \notin DOMAIN db => db'[id].processing_status = "pending"
       /\ id \in DOMAIN db /\ db[id].processing_status # db'[id].processing_status
            => <<db[id].processing_status, db'[id].processing_status>> \in
                 {<<"pending", "processing">>, <<"processing", "completed">>,
                  <<"processing", "failed">>}]_vars

\* C2: an upload of a file whose bytes exceed the size limit fails with the
\* too-large error, and neither a blob nor a record of it is created.  (Stated
\* for the files that pass every other check of validate_file, so that the
\* too-large error is the only one the call can end with.)
OtherwiseValid(f) == validate_file([f EXCEPT !.size = NoSize]).error = "none"

C2_OversizeRejected ==
  \A u \in Uploads :
    pc[u] # "idle" /\ OtherwiseValid(file[u]) /\ Oversize(file[u])
      => result[u] = "TooLarge" /\ u \notin DOMAIN disk /\ u \notin DOMAIN db

\* C3: an upload rejected for its filename (missing, empty, empty after
\* sanitization) or for an extension on no allow-list leaves no blob and no
\* record.
ClientNameErrors == {"NoFilename", "InvalidFilename", "UnsupportedType"}

C3_RejectedLeavesNothing ==
  \A u \in Uploads :
    result[u] \in ClientNameErrors => u \notin DOMAIN disk /\ u \notin DOMAIN db

C3_Witness ==
  \E u \in Uploads :
    /\ result[u] = "UnsupportedType"
    /\ file[u].filename = Name("run", ".exe")
    /\ disk = << >> /\ db = << >>

\* C4 as stated: the record a successful upload returns is pending or completed.
C4_ReturnedPendingOrCompleted ==
  \A u \in Uploads :
    Returned(u) => file_record[u].processing_status \in {"pending", "completed"}

\* C4, amended: the record a successful upload returns is completed or failed
\* (never pending or processing).
C4_ReturnedTerminal ==
  \A u \in Uploads :
    Returned(u) => file_record[u].processing_status \in {"completed", "failed"}

C4_Witness ==
  \E u \in Uploads :
    /\ Returned(u)
    /\ file_record[u].processing_status = "failed"
    /\ u \in DOMAIN db /\ db[u] = file_record[u]

\* C5: when upload returns an error, neither a record nor a blob created by
\* that call persists.
C5_UploadFailsAtomically ==
  \A u \in Uploads :
    Errored(u) => u \notin DOMAIN disk /\ u \notin DOMAIN db

\* C6: a failure while processing a persisted record never reaches the caller
\* of upload as an error, and never removes the record or its blob.
C6_ProcessingFailureLocal ==
  [][\A u \in Uploads :
       pc[u] \in {"process", "extract"} =>
         /\ ~Errored(u)'
         /\ u \in DOMAIN db'
         /\ u \in DOMAIN disk => u \in DOMAIN disk']_vars

\* C7: for every successfully uploaded file the stored hash equals the SHA-256
\* digest of the stored blob.
C7_HashMatchesBlob ==
  \A u \in Uploads :
    Returned(u) /\ u \in DOMAIN db /\ db[u].file_path \in DOMAIN disk
      => db[u].metadata.hash = SHA256(disk[db[u].file_path])

\* C8: when computing the digest of the stored blob fails, the upload is
\* aborted: no record of it is persisted.
DigestFailed(rec) ==
  "error" \in DOMAIN rec.metadata /\ rec.metadata.error = "hash"

C8_DigestFailureAborts ==
  \A id \in DOMAIN db : ~DigestFailed(db[id])

\* C9: when reading the upload or writing the file fails, no file, partial or
\* complete, is left at the blob path once upload has returned its error.
C9_NoPartialBlob ==
  \A u \in Uploads :
    result[u] \in {"ReadError", "WriteError"} => u \notin DOMAIN disk

\* C10: when delete_file returns True the record is gone (get_file finds
\* nothing) and its blob path no longer exists; on an id with no record it
\* returns False and changes neither the record store nor the blob store.
C10_Delete ==
  [][/\ last'.ret = "True" =>
          /\ last'.id \in DOMAIN db
          /\ last'.id \notin DOMAIN db'
          /\ last'.path = db[last'.id].file_path
          /\ last'.path \notin DOMAIN disk'
     /\ last'.ret # "none" /\ last'.id \notin DOMAIN db =>
          last'.ret = "False" /\ disk' = disk /\ db' = db
     /\ last'.ret = "False" => last'.id \notin DOMAIN db]_vars

C10_Witness ==
  /\ last.ret = "True"
  /\ get_file(last.id) = NoRecord
  /\ last.path \notin DOMAIN disk

\* C11: delete_file removes the blob and the record in one logical operation:
\* after any delete_file call on a record with its blob, the record and the
\* blob both still exist or neither does.
C11_DeleteAtomic ==
  [][\A id \in DOMAIN db \cap Uploads :
       (/\ Returned(id)
        /\ last'.ret # "none" /\ last'.id = id /\ db[id].file_path \in DOMAIN disk)
       => (id \in DOMAIN db' <=> db[id].file_path \in DOMAIN disk')]_vars

\* The paths the persisted records name, and whether a cleanup call has just
\* returned
Referenced == {db[id].file_path : id \in DOMAIN db}
CleanupReturned == recon.ret # -1

\* C12: reconcile removes every stored blob no record references, and the
\* value it returns is the number of blobs it removed, also when deletions
\* fail.
C12_RemovesAndCounts ==
  [][CleanupReturned' =>
       /\ DOMAIN disk' = DOMAIN disk \cap Referenced
       /\ recon'.ret = Cardinality(DOMAIN disk \ DOMAIN disk')]_vars

NoExtraction == {"image", "other"}

\* C17 as stated: the durable status of an image or other record is never
\* processing.
C17_NeverProcessing ==
  \A id \in DOMAIN db :
    db[id].file_type \in NoExtraction => db[id].processing_status # "processing"

\* C17, amended: an image or other record becomes completed only from
\* processing, as every record does, and no text is extracted for it.
C17_CompletedFromProcessing ==
  [][\A id \in DOMAIN db' :
       (/\ db'[id].file_type \in NoExtraction
        /\ db'[id].processing_status = "completed"
        /\ (id \in DOMAIN db => db[id].processing_status # "completed"))
       => (/\ id \in DOMAIN db
           /\ db[id].processing_status = "processing"
           /\ db'[id].extracted_text = NoText)]_vars

C17_Witness ==
  \E u \in Uploads :
    /\ Returned(u)
    /\ u \in DOMAIN db
    /\ db[u].file_type = "image"
    /\ db[u].processing_status = "completed"

\* C18: while the extractor or the audio collaborator runs the durable status
\* is processing, and when upload returns the record its terminal status
\* (completed or failed) is the durable one.
C18_CommitOrder ==
  [][\A u \in Uploads :
       /\ pc'[u] = "extract"
            => u \in DOMAIN db' /\ db'[u].processing_status = "processing"
       /\ ~Returned(u) /\ Returned(u)'
            => /\ u \in DOMAIN db'
               /\ db'[u].processing_status \in {"completed", "failed"}
               /\ db'[u].processing_status = file_record'[u].processing_status]_vars

C18_Witness ==
  \E u \in Uploads :
    /\ Returned(u)
    /\ u \in DOMAIN db
    /\ db[u].file_type = "document"
    /\ db[u].processing_status = "completed"
    /\ db[u].extracted_text = "hello world"

\* C19: a record is added only by the commit step of an upload call, and at
\* that moment the blob of the call is in the blob store, completely written;
\* processing, delete_file and cleanup_orphaned_files add no record.
C19_RecordAfterBlob ==
  [][\A id \in DOMAIN db' \ DOMAIN db :
       /\ id \in Uploads
       /\ pc[id] = "commit"
       /\ db'[id].file_path \in DOMAIN disk
       /\ disk[db'[id].file_path] = file[id].body]_vars

\* C15: under every interleaving of the steps of cleanup_orphaned_files with
\* the steps of an upload, once the cleanup call is over the record an upload
\* has returned is persisted and still has its blob.
C15_ConcurrentCleanupSafe ==
  \A u \in Uploads :
    Returned(u) /\ sweep.pc = "idle" => u \in DOMAIN db /\ u \in DOMAIN disk

\* What an extractor reads of a document when nothing is cut: the content,
\* the cleaned Markdown, or all the parts joined.  NoFault: no reader raises.
KeptItems(mime_type, items) ==
  IF mime_type = "application/pdf"
  THEN SelectSeq(items, LAMBDA it : it.text # << >>)
  ELSE SelectSeq(items, LAMBDA it : Strip(it.text) # << >>)

Unbounded(j) ==
  IF j.mime_type = "text/csv"
  THEN Join([i \in 1..Len(j.doc.items) |-> CsvLine(i - 1, j.doc.items[i].cells)], NL)
  ELSE IF j.mime_type \in {"application/pdf", Docx}
  THEN LET kept == KeptItems(j.mime_type, j.doc.items)
       IN Join([i \in 1..Len(kept) |-> kept[i].text], NL)
  ELSE IF j.mime_type = "text/markdown" THEN clean_markdown(j.doc.content)
  ELSE j.doc.content

NoFault(j) == \A i \in 1..Len(j.doc.items) : ~j.doc.items[i].raises

\* C16: the text any extractor returns is never longer than the cap; when the
\* whole extraction is longer than the cap the text is its first cap
\* characters, and otherwise it is the whole extraction.
C16_LengthCap ==
  out.kind = "text" =>
    /\ Len(out.text) <= max_text_length
    /\ NoFault(job) =>
         LET whole == Unbounded(job)
         IN IF Len(whole) > max_text_length
            THEN /\ Len(out.text) = max_text_length
                 /\ out.text = SubSeq(whole, 1, max_text_length)
            ELSE out.text = whole

C16_Witness ==
  /\ out.kind = "text"
  /\ job.mime_type = "text/csv"
  /\ NoFault(job)
  /\ Len(Unbounded(job)) > max_text_length
  /\ Len(out.text) = max_text_length

\* C20: extract_text returns a text or None and is never left by an
\* exception, whatever fails inside; a MIME type it has no branch for is read
\* as plain text.
C20_NeverRaises ==
  out # NoOut =>
    /\ out.kind \in {"text", "none"}
    /\ job.mime_type \in OtherMimes => out = extract_from_txt(job.doc)
    /\ job.doc.fault = "none" /\ job.mime_type \in OtherMimes => out.kind = "text"

C20_Witness ==
  /\ out.kind = "text"
  /\ out.text # << >>
  /\ job.mime_type = "application/json"
  /\ job.doc.fault = "UnicodeDecodeError"

\* The lines of a CSV document with the fields of each row joined by sep,
\* cut at the cap
CsvLabel(k) ==
  IF k = 0 THEN <<"H", "e", "a", "d", "e", "r", "s", ":", " ">>
  ELSE <<"R", "o", "w", " ">> \o Str(k) \o <<":", " ">>

CsvRendered(j, sep) ==
  LET lines == [i \in 1..Len(j.doc.items) |->
                  CsvLabel(i - 1)
                    \o Join(ParseRow(j.doc.items[i].text, j.doc.delimiter), sep)]
      whole == Join(lines, NL)
  IN IF Len(whole) > max_text_length THEN SubSeq(whole, 1, max_text_length)
     ELSE whole

CsvExtracted ==
  out.kind = "text" /\ job.mime_type = "text/csv" /\ NoFault(job)

\* C21 as stated: the first row is the line "Headers: <fields>", each later
\* row k the line "Row k: <fields>", in input order, the fields joined by the
\* detected delimiter.
C21_JoinedByDelimiter ==
  CsvExtracted => out.text = CsvRendered(job, <<job.doc.delimiter>>)

\* C21, amended: the same lines, the fields joined by ", " whatever delimiter
\* was detected (the delimiter only splits the rows into fields).
C21_JoinedByCommaSpace ==
  CsvExtracted => out.text = CsvRendered(job, <<",", " ">>)

C21_Witness ==
  /\ CsvExtracted
  /\ job.doc.delimiter = ";"
  /\ Len(job.doc.items) = 2
  /\ Len(job.doc.items[1].cells) = 2
  /\ Len(job.doc.items[2].cells) = 1
  /\ Len(out.text) = max_text_length

\* A fence line, and the lines of a Markdown text outside its fenced blocks:
\* a fence line, the lines up to the next fence line and that line are left
\* out (a fence line with no fence line after it is left out alone)
IsFence(line) == Len(line) >= 3 /\ SubSeq(line, 1, 3) = Fence

RECURSIVE Unfenced(_, _)
Unfenced(lines, i) ==
  IF i > Len(lines) THEN << >>
  ELSE IF ~IsFence(lines[i]) THEN <<lines[i]>> \o Unfenced(lines, i + 1)
  ELSE IF \E j \in (i + 1)..Len(lines) : IsFence(lines[j])
  THEN Unfenced(lines, 1 + CHOOSE j \in (i + 1)..Len(lines) :
                             /\ IsFence(lines[j])
                             /\ \A h \in (i + 1)..(j - 1) : ~IsFence(lines[h]))
  ELSE Unfenced(lines, i + 1)

MarkdownExtracted ==
  out.kind = "text" /\ job.mime_type = "text/markdown"

\* C22: the cleaned Markdown is the cleaning of the lines outside the fenced
\* code blocks: no fence line and no line between an opening fence and its
\* closing fence is in it.
C22_FencedBlocksDropped ==
  MarkdownExtracted =>
    LET kept == Unfenced(Split(job.doc.content), 1)
        whole == Join(CleanLines(kept), NL)
    IN out.text = IF Len(whole) > max_text_length
                  THEN SubSeq(whole, 1, max_text_length) ELSE whole

\* C23: the summary is the text itself when it is no longer than the target
\* length; otherwise the first target-length characters, up to and including
\* their last period when a period lies past 70% of the target length (index
\* from 0), and with "..." appended when none does; it is never longer than
\* the target length plus 3.
C23_Summary ==
  out # NoOut =>
    LET text == job.doc.content
        m == default_max_length
        cut == SubSeq(text, 1, m)
        periods == {i \in 1..m : cut[i] = "."}
        past70 == {i \in periods : 10 * (i - 1) > 7 * m}
    IN /\ Len(out.text) <= m + 3
       /\ Len(text) <= m => out.text = text
       /\ Len(text) > m /\ past70 # {} =>
            out.text = SubSeq(cut, 1, CHOOSE i \in periods : \A h \in periods : h <= i)
       /\ Len(text) > m /\ past70 = {} => out.text = cut \o <<".", ".", ".">>

C23_Witness ==
  /\ out # NoOut
  /\ Len(job.doc.content) > default_max_length
  /\ job.doc.content[2] = "."
  /\ job.doc.content[default_max_length - 1] = "."
  /\ job.doc.content[default_max_length] = "a"
  /\ Len(out.text) = default_max_length - 1

\* C24: a record whose status is failed has the key processing_error in its
\* metadata and no extracted text, however process_file got there.
C24_FailedHasErrorAndNoText ==
  \A id \in DOMAIN db :
    db[id].processing_status = "failed" =>
      /\ "processing_error" \in DOMAIN db[id].metadata
      /\ db[id].extracted_text = NoText

\* C25: a document record becomes completed in the step in which the
\* extractor returns; the text the extractor returned (the empty text too) is
\* then the record's extracted text; and when that step ends in failed, the
\* cause is the commit, not the extractor's result.
C25_CompletedWithResult ==
  [][\A u \in DOMAIN db' \cap DOMAIN db \cap Uploads :
       (/\ db'[u].file_type = "document"
        /\ db[u].processing_status = "processing"
        /\ db'[u].processing_status # "processing")
       => /\ pc[u] = "extract"
          /\ (/\ db'[u].processing_status = "completed"
              /\ extracted_text'[u] # NoText)
               => db'[u].extracted_text = extracted_text'[u]
          /\ db'[u].processing_status = "failed"
               => db'[u].metadata.processing_error = "commit failed"]_vars

\* The keys of the mappings process_file merges into a record's metadata
MergedKeys(file_type) ==
  {"processing_error"}
    \cup (IF file_type = "audio" THEN UNION {DOMAIN a : a \in AudioResults} ELSE {})

\* C26: every change of a record's metadata keeps the keys it had, and a key
\* is added or gets another value only if a mapping merged in has that key.
C26_MetadataMerged ==
  [][\A id \in DOMAIN db \cap DOMAIN db' :
       LET old == db[id].metadata
           new == db'[id].metadata
       IN /\ DOMAIN old \subseteq DOMAIN new
          /\ \A k \in DOMAIN new :
               k \notin DOMAIN old \/ new[k] # old[k]
                 => k \in MergedKeys(db[id].file_type)]_vars

C26_Witness ==
  \E id \in DOMAIN db :
    /\ db[id].processing_status = "failed"
    /\ DOMAIN db[id].metadata
         = {"mime_type", "file_size", "hash", "duration", "processing_error"}
    /\ db[id].metadata.mime_type = "audio/mpeg"
    /\ db[id].mime_type # "audio/mpeg"

\* C27: for a record that is no document the text extractor is not called
\* (the local extracted_text stays None) and the record has no extracted
\* text, in memory or committed; what the audio collaborator returns is in
\* the metadata.
C27_TextOnlyForDocuments ==
  \A u \in Uploads :
    /\ file_record[u] # NoRecord /\ file_record[u].file_type # "document"
         => extracted_text[u] = NoText /\ file_record[u].extracted_text = NoText
    /\ u \in DOMAIN db /\ db[u].file_type # "document"
         => extracted_text[u] = NoText /\ db[u].extracted_text = NoText

C27_Witness ==
  \E u \in Uploads :
    /\ Returned(u) /\ u \in DOMAIN db
    /\ db[u].file_type = "audio"
    /\ db[u].processing_status = "completed"
    /\ "duration" \in DOMAIN db[u].metadata
    /\ u \in DOMAIN disk /\ disk[u] = "hello world"
    /\ db[u].extracted_text = NoText

\* The columns of a record that are fixed when it is created
Facts(rec) ==
  <<rec.file_type, rec.file_path, rec.filename, rec.original_filename,
    rec.file_size, rec.mime_type>>

\* C28: from its creation to its deletion no step changes the file type,
\* path, stored name, original name, size or MIME type of a record, committed
\* or in the object a call returns.
C28_FactsUnchanged ==
  [][/\ \A id \in DOMAIN db \cap DOMAIN db' : Facts(db'[id]) = Facts(db[id])
     /\ \A u \in Uploads :
          Returned(u)' /\ u \in DOMAIN db'
            => Facts(file_record'[u]) = Facts(db'[u])]_vars

C28_Witness ==
  \E u \in Uploads :
    /\ Returned(u) /\ u \in DOMAIN db /\ u \in DOMAIN disk
    /\ db[u].processing_status = "failed"
    /\ Facts(db[u]) = <<"document", u, Name("notes", ".txt"), Name("notes", ".txt"),
                        ByteLen(disk[u]), "text/plain">>

\* C29: a record an upload has persisted is, sooner or later, completed or
\* failed (or deleted); it does not stay pending or processing for ever.
C29_EventuallyTerminal ==
  \A u \in Uploads :
    (u \in DOMAIN db)
      ~> (u \notin DOMAIN db \/ db[u].processing_status \in {"completed", "failed"})

\* What there is of call v in the stores and in its caller's hands
Owned(v, d, rows, recs, res) ==
  <<IF v \in DOMAIN d THEN <<d[v]>> ELSE << >>,
    IF v \in DOMAIN rows THEN <<rows[v]>> ELSE << >>,
    recs[v], res[v]>>

\* C30: no two persisted records have the same blob path, and a step of one
\* upload (its writes, its processing, its failure cleanup) leaves the blob,
\* the record and the outcome of every other upload as they are.
C30_UploadsIndependent ==
  [][/\ \A a, b \in DOMAIN db' : a # b => db'[a].file_path # db'[b].file_path
     /\ \A u, v \in Calls :
          u # v /\ pc'[u] # pc[u]
            => /\ pc'[v] = pc[v]
               /\ Owned(v, disk', db', file_record', result')
                    = Owned(v, disk, db, file_record, result)]_vars

C30_Witness ==
  \E u, v \in Calls :
    /\ u # v
    /\ pc[v] = "extract" /\ v \in DOMAIN disk /\ v \in DOMAIN db
    /\ result[u] = "UploadFailed"
    /\ file[u].filename = Name("notes", ".txt")
    /\ u \notin DOMAIN disk

====
